---------------------------- MODULE Spec2Model ----------------------------
(***************************************************************************)
(* Model of napari/_qt/layers/qt_labels_layer.py: the QtLabelsControls     *)
(* panel that mirrors the properties of a Labels layer.                    *)
(*                                                                         *)
(* Execution is single threaded and synchronous: a property write on the   *)
(* layer calls the connected handler before the write returns, and a Qt    *)
(* widget setter that changes the widget's value calls the connected slot  *)
(* before the setter returns.  A top-level event (a user edit, a model     *)
(* write, a click, the construction) is therefore one action, computed by  *)
(* the chain of operator calls below; the chain is recorded in `calls`.    *)
(*                                                                         *)
(* brush_size is a float in the program.  It is held here in fixed point:  *)
(* the integer t stands for the brush size t / Scale.                      *)
(***************************************************************************)
EXTENDS Integers, Sequences, FiniteSets, TLC

\* ---------------------------------------------------------------- bounds
\* labels written to the model or typed into the spinbox: 0..MaxLabel
MaxLabel == 2
\* fixed-point resolution of brush_size (tenths)
Scale == 10
\* the small fraction of the sampled brush sizes (0.4 in tenths); the large
\* one is Scale - 1 (0.9)
LowFrac == 4
\* an integer brush size well inside the slider's range
MidBrush == 15
\* how far above the slider's maximum the sampled brush sizes reach
BrushOver == 1
\* clicks on 'shuffle colors' that are counted
MaxClicks == 2
\* fuel of one chain of handler calls; a chain that needs more is an overrun
MaxChain == 16
\* fixed-point resolution of a colour channel: the channel k / ChanScale
ChanScale == 4

\* ------------------------------------------------------ program constants
SpinMin == 0
SpinMax == 2147483647
SliderMin == 1
SliderMax == 40
ClipLo == 1
ClipHi == 40
\* Qt.Checked, the state a ticked QCheckBox reports
QtChecked == 2
\* QtColorBox._height, the side of the swatch in pixels
Height == 24
\* the step of the checkerboard's cells
CellStep == 4
\* the width and height given to drawRect for a cell
CellRect == 5
\* the channel of QColor(230, 230, 230) and of QColor(25, 25, 25)
Light == 230
Dark == 25
\* the factor of a fractional channel
ChannelMax == 255

Modes == {"PAN_ZOOM", "PICKER", "PAINT", "FILL"}
\* a member of an extended Mode enumeration, unknown to the panel
UnknownMode == "UNRECOGNIZED"
AllModes == Modes \cup {UnknownMode}

Buttons == {"panzoom_button", "pick_button", "paint_button", "fill_button"}

Properties ==
    {"mode", "selected_label", "brush_size", "contiguous", "n_dimensional",
     "editable"}

\* the brush sizes the model is exercised with, in fixed point: below, at
\* and above the slider's range, integral and fractional
BrushInts == {0, SliderMin, MidBrush, SliderMax, SliderMax + BrushOver}

Fractions == {0, LowFrac, Scale - 1}

BrushSizes == {p[1] * Scale + p[2] : p \in BrushInts \X Fractions}

\* the slider positions a user drags to: the integral sampled sizes
SliderPositions ==
    {v \in SliderMin .. SliderMax : v * Scale \in BrushSizes}

VARIABLES
    layer,              \* the Labels layer's mirrored properties
    blocked,            \* per property: depth of events.<property>.blocker()
    panel,              \* the widgets of QtLabelsControls
    calls,              \* the chain of calls of the last top-level event
    raised,             \* the exception the last top-level event ended with
    overrun,            \* the last chain ran out of fuel
    event,              \* the last top-level event
    pc,                 \* "new": panel not yet constructed; "ready"
    clicks,             \* clicks on 'shuffle colors' so far
    new_colormap_calls, \* calls of layer.new_colormap() so far
    status,             \* layer.status
    selected_color,     \* layer._selected_color: <<>> (None) or <<r, g, b>>
    swatch              \* the pixels QtColorBox.paintEvent painted last

vars ==
    <<layer, blocked, panel, calls, raised, overrun, event, pc, clicks,
      new_colormap_calls, status, selected_color, swatch>>


\* ------------------------------------------------------------ the record
\* The operators below work on a record st of the fields layer, blocked,
\* panel, calls, raised and overrun.

\* a call of a handler, <<"call", name>>, or a property write,
\* <<"set", property, value>>, joins the chain
Call(st, what) == [st EXCEPT !.calls = Append(@, what)]

\* np.clip(x, lo, hi)
Clip(x, lo, hi) == IF x < lo THEN lo ELSE IF x > hi THEN hi ELSE x

\* PyInt with the fraction rounded to the nearest integer instead of
\* discarded
PyInt_rounding(t) == (2 * t + Scale) \div (2 * Scale)

\* int(value) on a float held in fixed point: the fraction is discarded
\* (truncation toward zero); the result is a plain integer
PyInt(t) == IF t >= 0 THEN t \div Scale ELSE -((-t) \div Scale)

\* the fixed-point form of an integer
ToFixed(v) == v * Scale

\* events.<property>.blocker().__enter__ and .__exit__
Block(st, prop) == [st EXCEPT !.blocked[prop] = @ + 1]

Unblock(st, prop) == [st EXCEPT !.blocked[prop] = @ - 1]

\* the mode-selector button that belongs to a mode
ButtonOf(mode) ==
    CASE mode = "PAN_ZOOM" -> "panzoom_button"
      [] mode = "PICKER" -> "pick_button"
      [] mode = "PAINT" -> "paint_button"
      [] mode = "FILL" -> "fill_button"

\* <button>.setChecked(True) on a member of the exclusive button_group:
\* the button is checked and the group unchecks its other members
ButtonSetChecked(st, button) ==
    [st EXCEPT !.panel.checked = [b \in Buttons |-> b = button]]

\* the widgets _on_editable_change enables or disables
EditableWidgets == {"pick_button", "paint_button", "fill_button"}

\* disable_with_opacity(self, widget_list, enabled): each listed widget
\* accepts input exactly when enabled (and is dimmed otherwise)
disable_with_opacity(st, widget_list, enabled) ==
    [st EXCEPT !.panel.enabled =
        [b \in Buttons |-> IF b \in widget_list THEN enabled ELSE @[b]]]

\* a property write on the layer: the value is stored and the property's
\* change notification is emitted (defined below, after the handlers)
RECURSIVE LayerSet(_, _, _)

\* ------------------------------------------------- outbound handlers
changeSelection(st, value) ==
    LET s1 == LayerSet(Call(st, <<"call", "changeSelection">>),
                       "selected_label", value)
    IN  \* clearFocus() on the spinbox, then setFocus() on the panel
        [s1 EXCEPT !.panel.focus = "panel"]

\* changeSize writing one more than the slider reports
changeSize_off_by_one(st, value) ==
    LayerSet(Call(st, <<"call", "changeSize">>), "brush_size",
             ToFixed(value + 1))

changeSize(st, value) ==
    LayerSet(Call(st, <<"call", "changeSize">>), "brush_size", ToFixed(value))

\* change_contig with the two branches exchanged
change_contig_inverted(st, state) ==
    LET s1 == Call(st, <<"call", "change_contig">>)
    IN  IF state = QtChecked
        THEN LayerSet(s1, "contiguous", FALSE)
        ELSE LayerSet(s1, "contiguous", TRUE)

change_contig(st, state) ==
    LET s1 == Call(st, <<"call", "change_contig">>)
    IN  IF state = QtChecked
        THEN LayerSet(s1, "contiguous", TRUE)
        ELSE LayerSet(s1, "contiguous", FALSE)

\* change_ndim writing the contiguous flag
change_ndim_writes_contiguous(st, state) ==
    LET s1 == Call(st, <<"call", "change_ndim">>)
    IN  IF state = QtChecked
        THEN LayerSet(s1, "contiguous", TRUE)
        ELSE LayerSet(s1, "contiguous", FALSE)

change_ndim(st, state) ==
    LET s1 == Call(st, <<"call", "change_ndim">>)
    IN  IF state = QtChecked
        THEN LayerSet(s1, "n_dimensional", TRUE)
        ELSE LayerSet(s1, "n_dimensional", FALSE)

\* --------------------------------------------------- the Qt widgets
\* QSpinBox.setValue with valueChanged connected to changeSelection: the
\* value is bounded to the spinbox's range, and the slot runs only when
\* the value changes
SpinBoxSetValue(st, v) ==
    LET b == Clip(v, SpinMin, SpinMax)
    IN  IF b = st.panel.selectionSpinBox
        THEN st
        ELSE changeSelection([st EXCEPT !.panel.selectionSpinBox = b], b)

\* QSlider.setValue with valueChanged connected to changeSize
SliderSetValue(st, v) ==
    LET b == Clip(v, SliderMin, SliderMax)
    IN  IF b = st.panel.brushSizeSlider
        THEN st
        ELSE changeSize([st EXCEPT !.panel.brushSizeSlider = b], b)

\* the state a two-state QCheckBox reports with stateChanged: Qt.Checked,
\* or Qt.Unchecked (0)
CheckState(checked) == IF checked THEN QtChecked ELSE 0

\* QCheckBox.setChecked with stateChanged connected to change_contig
ContigSetChecked(st, checked) ==
    IF checked = st.panel.contigCheckBox
    THEN st
    ELSE change_contig([st EXCEPT !.panel.contigCheckBox = checked],
                       CheckState(checked))

\* QCheckBox.setChecked with stateChanged connected to change_ndim
NdimSetChecked(st, checked) ==
    IF checked = st.panel.ndimCheckBox
    THEN st
    ELSE change_ndim([st EXCEPT !.panel.ndimCheckBox = checked],
                     CheckState(checked))

\* --------------------------------------------------- inbound handlers
\* _on_mode_change with the PICKER and PAINT branches exchanged
_on_mode_change_swapped(st, mode) ==
    LET s1 == Call(st, <<"call", "_on_mode_change">>)
    IN  IF mode = "PAN_ZOOM" THEN ButtonSetChecked(s1, "panzoom_button")
        ELSE IF mode = "PICKER" THEN ButtonSetChecked(s1, "paint_button")
        ELSE IF mode = "PAINT" THEN ButtonSetChecked(s1, "pick_button")
        ELSE IF mode = "FILL" THEN ButtonSetChecked(s1, "fill_button")
        ELSE [s1 EXCEPT !.raised = "ValueError"]

\* _on_mode_change falling back to pan/zoom instead of raising
_on_mode_change_default(st, mode) ==
    LET s1 == Call(st, <<"call", "_on_mode_change">>)
    IN  IF mode = "PICKER" THEN ButtonSetChecked(s1, "pick_button")
        ELSE IF mode = "PAINT" THEN ButtonSetChecked(s1, "paint_button")
        ELSE IF mode = "FILL" THEN ButtonSetChecked(s1, "fill_button")
        ELSE ButtonSetChecked(s1, "panzoom_button")

_on_mode_change(st, mode) ==
    LET s1 == Call(st, <<"call", "_on_mode_change">>)
    IN  IF mode = "PAN_ZOOM" THEN ButtonSetChecked(s1, "panzoom_button")
        ELSE IF mode = "PICKER" THEN ButtonSetChecked(s1, "pick_button")
        ELSE IF mode = "PAINT" THEN ButtonSetChecked(s1, "paint_button")
        ELSE IF mode = "FILL" THEN ButtonSetChecked(s1, "fill_button")
        ELSE [s1 EXCEPT !.raised = "ValueError"]

\* _on_selection_change blocking the event without releasing it
_on_selection_change_no_release(st) ==
    LET s1 == Block(Call(st, <<"call", "_on_selection_change">>),
                    "selected_label")
    IN  SpinBoxSetValue(s1, s1.layer.selected_label)

_on_selection_change(st) ==
    LET s1 == Block(Call(st, <<"call", "_on_selection_change">>),
                    "selected_label")
        value == s1.layer.selected_label
        \* int(value) of an integer label is the label
        s2 == SpinBoxSetValue(s1, value)
    IN  Unblock(s2, "selected_label")

_on_brush_size_change(st) ==
    LET s1 == Block(Call(st, <<"call", "_on_brush_size_change">>),
                    "brush_size")
        value == Clip(PyInt(s1.layer.brush_size), ClipLo, ClipHi)
        s2 == SliderSetValue(s1, value)
    IN  Unblock(s2, "brush_size")

_on_n_dim_change(st) ==
    LET s1 == Block(Call(st, <<"call", "_on_n_dim_change">>),
                    "n_dimensional")
        s2 == NdimSetChecked(s1, s1.layer.n_dimensional)
    IN  Unblock(s2, "n_dimensional")

_on_contig_change(st) ==
    LET s1 == Block(Call(st, <<"call", "_on_contig_change">>), "contiguous")
        s2 == ContigSetChecked(s1, s1.layer.contiguous)
    IN  Unblock(s2, "contiguous")

\* _on_editable_change listing the pan/zoom button as well
_on_editable_change_all(st) ==
    LET s1 == Call(st, <<"call", "_on_editable_change">>)
    IN  disable_with_opacity(s1, Buttons, s1.layer.editable)

_on_editable_change(st) ==
    LET s1 == Call(st, <<"call", "_on_editable_change">>)
    IN  disable_with_opacity(s1, EditableWidgets, s1.layer.editable)

\* ------------------------------------------------------- the layer
\* events.<property>(...): nothing while the property's emitter is blocked,
\* else the handler __init__ connected to it, called synchronously; the
\* mode event carries the mode
Emit(st, prop, value) ==
    IF st.blocked[prop] > 0 THEN st
    ELSE CASE prop = "mode" -> _on_mode_change(st, value)
           [] prop = "selected_label" -> _on_selection_change(st)
           [] prop = "brush_size" -> _on_brush_size_change(st)
           [] prop = "contiguous" -> _on_contig_change(st)
           [] prop = "n_dimensional" -> _on_n_dim_change(st)
           [] prop = "editable" -> _on_editable_change(st)

LayerSet(st, prop, value) ==
    IF st.overrun \/ Len(st.calls) >= MaxChain
    THEN [st EXCEPT !.overrun = TRUE]
    ELSE Emit([Call(st, <<"set", prop, value>>) EXCEPT !.layer[prop] = value],
              prop, value)


\* layer.new_colormap(): the layer reassigns its colours; the calls are
\* counted
new_colormap(count) == count + 1

\* changeColor asking for a new colormap twice
changeColor_twice(count) == new_colormap(new_colormap(count))

changeColor(count) == new_colormap(count)

\* str(mode) of a member of the Mode enumeration: its lower-case name
ModeStr(mode) ==
    CASE mode = "PAN_ZOOM" -> "pan_zoom"
      [] mode = "PICKER" -> "picker"
      [] mode = "PAINT" -> "paint"
      [] mode = "FILL" -> "fill"
      [] OTHER -> "unrecognized"

\* mouseMoveEvent reporting the mode the panel starts in, not the current
mouseMoveEvent_initial_mode(mode) == ModeStr("PAN_ZOOM")

\* mouseMoveEvent(event): the value it assigns to layer.status
mouseMoveEvent(mode) == ModeStr(mode)

\* --------------------------------------------------- the colour box
\* layer._selected_color when the layer has no colour for the label (None)
NoColor == <<>>

\* the colours the layer derives: none, or three channels in [0, 1]
SelectedColors ==
    {NoColor} \cup
    {<<r, g, b>> : r \in 0 .. ChanScale, g \in 0 .. ChanScale,
                   b \in 0 .. ChanScale}

Pixels == (0 .. Height - 1) \X (0 .. Height - 1)

QColor(r, g, b) == <<r, g, b>>

\* what a pixel holds that paintEvent did not paint
Blank == <<>>

\* painter.drawRect(x, y, w, h) with the pen and the brush set to color:
\* the brush fills the rectangle and the one-pixel pen outlines it through
\* column x + w and row y + h; the painter is clipped to the widget
drawRect(canvas, x, y, w, h, color) ==
    [p \in Pixels |->
        IF p[1] \in x .. x + w /\ p[2] \in y .. y + h
        THEN color ELSE canvas[p]]

\* CellColor with the two colours exchanged
CellColor_exchanged(i, j) ==
    IF (i % 2 = 0 /\ j % 2 = 0) \/ (i % 2 = 1 /\ j % 2 = 1)
    THEN QColor(Dark, Dark, Dark)
    ELSE QColor(Light, Light, Light)

\* the pen and brush paintEvent sets for the cell (i, j)
CellColor(i, j) ==
    IF (i % 2 = 0 /\ j % 2 = 0) \/ (i % 2 = 1 /\ j % 2 = 1)
    THEN QColor(Light, Light, Light)
    ELSE QColor(Dark, Dark, Dark)

\* the two nested loops of paintEvent from their k-th iteration on:
\* i = k div n outside, j = k mod n inside, n = _height // 4
RECURSIVE PaintCells(_, _)
PaintCells(canvas, k) ==
    LET n == Height \div CellStep
        i == k \div n
        j == k % n
    IN  IF k >= n * n THEN canvas
        ELSE PaintCells(drawRect(canvas, i * CellStep, j * CellStep,
                                 CellRect, CellRect, CellColor(i, j)),
                        k + 1)

\* ToChannel rounding 255 * channel to the nearest integer
ToChannel_rounding(c) == (2 * ChannelMax * c + ChanScale) \div (2 * ChanScale)

\* (255 * channel).astype(int) of a channel held in fixed point: the
\* fraction of the product is discarded
ToChannel(c) == (ChannelMax * c) \div ChanScale

\* QtColorBox.paintEvent: the pixels of the swatch and the number of
\* rectangles drawn
paintEvent(color) ==
    LET blank == [p \in Pixels |-> Blank]
        n == Height \div CellStep
    IN  IF color = NoColor
        THEN [pixels |-> PaintCells(blank, 0), rects |-> n * n]
        ELSE [pixels |-> drawRect(blank, 0, 0, Height, Height,
                                  QColor(ToChannel(color[1]),
                                         ToChannel(color[2]),
                                         ToChannel(color[3]))),
              rects |-> 1]

\* ---------------------------------------------------- the state machine
Labels == SpinMin .. MaxLabel

LayerStates ==
    [mode : Modes, selected_label : Labels, brush_size : BrushSizes,
     contiguous : BOOLEAN, n_dimensional : BOOLEAN, editable : BOOLEAN]

\* the widgets as Qt creates them, before __init__ configures them
QtDefaults ==
    [selectionSpinBox |-> 0, brushSizeSlider |-> 0,
     contigCheckBox |-> FALSE, ndimCheckBox |-> FALSE,
     checked |-> [b \in Buttons |-> FALSE],
     enabled |-> [b \in Buttons |-> TRUE],
     focus |-> "other"]

NoEvent == [kind |-> "none", target |-> "none", value |-> 0]

\* the record a top-level event starts from: an empty chain
Start == [layer |-> layer, blocked |-> blocked, panel |-> panel,
          calls |-> <<>>, raised |-> "none", overrun |-> FALSE]

\* the record a top-level event ends with becomes the state
Commit(st, ev) ==
    /\ layer' = st.layer
    /\ blocked' = st.blocked
    /\ panel' = st.panel
    /\ calls' = st.calls
    /\ raised' = st.raised
    /\ overrun' = st.overrun
    /\ event' = ev
    /\ UNCHANGED <<status, selected_color, swatch>>

\* the colour box before its first paintEvent
Unpainted == [pixels |-> <<>>, rects |-> 0]

\* the layer in any state, the panel not yet constructed
InitControls ==
    /\ layer \in LayerStates
    /\ blocked = [p \in Properties |-> 0]
    /\ panel = QtDefaults
    /\ calls = <<>>
    /\ raised = "none"
    /\ overrun = FALSE
    /\ event = NoEvent
    /\ pc = "new"
    /\ clicks = 0
    /\ new_colormap_calls = 0
    /\ status = ""
    /\ swatch = Unpainted

\* the controls never read the layer's colour: it is left absent here and
\* drawn from SelectedColors by InitPaint
Init ==
    /\ InitControls
    /\ selected_color = NoColor

\* a layer with a label, its flags and any derived colour; paintEvent
\* reads the colour alone, so the mode and the brush size are fixed
InitPaint ==
    /\ InitControls
    /\ layer.mode = "PAN_ZOOM"
    /\ layer.brush_size = MidBrush * Scale
    /\ selected_color \in SelectedColors

\* QtLabelsControls.__init__: the widgets are created, connected and
\* initialised one after the other
Constructed(st) ==
    LET s1 == _on_selection_change(
                  [st EXCEPT !.panel.selectionSpinBox =
                                 Clip(@, SpinMin, SpinMax)])
        s2 == _on_brush_size_change(
                  [s1 EXCEPT !.panel.brushSizeSlider =
                                 Clip(@, SliderMin, SliderMax)])
        s3 == _on_contig_change(s2)
        s4 == _on_n_dim_change(s3)
        s5 == [s4 EXCEPT !.panel.checked =
                             [b \in Buttons |-> b = "panzoom_button"]]
    IN  _on_editable_change(s5)

Construct ==
    /\ pc = "new"
    /\ pc' = "ready"
    /\ Commit(Constructed(Start),
              [kind |-> "construct", target |-> "panel", value |-> 0])
    /\ UNCHANGED <<clicks, new_colormap_calls>>

\* the user types or steps the spinbox to another value
UserSpin(v) ==
    /\ pc = "ready"
    /\ v # panel.selectionSpinBox
    /\ Commit(SpinBoxSetValue(
                  [Start EXCEPT !.panel.focus = "selectionSpinBox"], v),
              [kind |-> "user", target |-> "selected_label", value |-> v])
    /\ UNCHANGED <<pc, clicks, new_colormap_calls>>

\* the user drags the slider to another position
UserSlide(v) ==
    /\ pc = "ready"
    /\ v # panel.brushSizeSlider
    /\ Commit(SliderSetValue(Start, v),
              [kind |-> "user", target |-> "brush_size", value |-> v])
    /\ UNCHANGED <<pc, clicks, new_colormap_calls>>

\* the user clicks the contiguous checkbox
UserToggleContig ==
    /\ pc = "ready"
    /\ Commit(ContigSetChecked([Start EXCEPT !.panel.focus = "other"],
                               ~panel.contigCheckBox),
              [kind |-> "user", target |-> "contiguous",
               value |-> ~panel.contigCheckBox])
    /\ UNCHANGED <<pc, clicks, new_colormap_calls>>

\* the user clicks the n-dim checkbox
UserToggleNdim ==
    /\ pc = "ready"
    /\ Commit(NdimSetChecked([Start EXCEPT !.panel.focus = "other"],
                             ~panel.ndimCheckBox),
              [kind |-> "user", target |-> "n_dimensional",
               value |-> ~panel.ndimCheckBox])
    /\ UNCHANGED <<pc, clicks, new_colormap_calls>>

\* the program writes a property of the layer
Write(prop, value) ==
    /\ pc = "ready"
    /\ Commit(LayerSet(Start, prop, value),
              [kind |-> "write", target |-> prop, value |-> value])
    /\ UNCHANGED <<pc, clicks, new_colormap_calls>>

\* the user clicks 'shuffle colors'
ClickShuffle ==
    /\ pc = "ready"
    /\ clicks < MaxClicks
    /\ clicks' = clicks + 1
    /\ new_colormap_calls' = changeColor(new_colormap_calls)
    /\ event' = [kind |-> "click", target |-> "colormapUpdate", value |-> 0]
    /\ calls' = <<>>
    /\ raised' = "none"
    /\ overrun' = FALSE
    /\ UNCHANGED <<layer, blocked, panel, pc, status, selected_color, swatch>>

\* the pointer moves over the panel
MouseMove ==
    /\ pc = "ready"
    /\ status' = mouseMoveEvent(layer.mode)
    /\ event' = [kind |-> "mouse", target |-> "panel", value |-> 0]
    /\ calls' = <<>>
    /\ raised' = "none"
    /\ overrun' = FALSE
    /\ UNCHANGED <<layer, blocked, panel, pc, clicks, new_colormap_calls,
                   selected_color, swatch>>

\* Qt asks the colour box to paint itself
PaintEvent ==
    /\ pc = "ready"
    /\ swatch' = paintEvent(selected_color)
    /\ event' = [kind |-> "paint", target |-> "QtColorBox", value |-> 0]
    /\ calls' = <<>>
    /\ raised' = "none"
    /\ overrun' = FALSE
    /\ UNCHANGED <<layer, blocked, panel, pc, clicks, new_colormap_calls,
                   status, selected_color>>

\* the four controls bound both ways to a value of the layer
NextValues ==
    \/ Construct
    \/ \E v \in Labels : UserSpin(v)
    \/ \E v \in SliderPositions : UserSlide(v)
    \/ UserToggleContig
    \/ UserToggleNdim
    \/ \E n \in Labels : Write("selected_label", n)
    \/ \E t \in BrushSizes : Write("brush_size", t)
    \/ \E b \in BOOLEAN : Write("contiguous", b)
    \/ \E b \in BOOLEAN : Write("n_dimensional", b)

\* the mode selector, the editable flag and the shuffle button
NextButtons ==
    \/ Construct
    \/ \E m \in AllModes : Write("mode", m)
    \/ \E b \in BOOLEAN : Write("editable", b)
    \/ ClickShuffle

\* the mode and the pointer
NextPointer ==
    \/ Construct
    \/ \E m \in AllModes : Write("mode", m)
    \/ MouseMove

\* the colour box
NextPaint ==
    \/ Construct
    \/ PaintEvent

Next == NextValues \/ NextButtons \/ NextPointer \/ NextPaint

Spec == Init /\ [][Next]_vars

\* the layers in every state, with the events of the value controls
SpecValues == Init /\ [][NextValues]_vars

\* the layers in every state, with the events of the buttons
SpecButtons == Init /\ [][NextButtons]_vars

\* the layers in every state, with mode changes and pointer movement
SpecPointer == Init /\ [][NextPointer]_vars

\* the layers of every derived colour, with the painting of the colour box
SpecPaint == InitPaint /\ [][NextPaint]_vars


\* ------------------------------------------------- what the claims read
\* the mode-selector buttons that are checked
CheckedButtons == {b \in Buttons : panel.checked[b]}

\* the places of the chain where the property is written
SetsOf(prop) ==
    {i \in 1 .. Len(calls) : calls[i][1] = "set" /\ calls[i][2] = prop}

\* the places of the chain where the handler is called
CallsOf(name) == {i \in 1 .. Len(calls) : calls[i] = <<"call", name>>}

\* the last top-level event is a write of the property by the program
Wrote(prop) == event.kind = "write" /\ event.target = prop

\* the integer part of a non-negative fixed-point number
TruncToInt(t) == CHOOSE n \in 0 .. t : n * Scale <= t /\ t < (n + 1) * Scale

\* the nearest integer of a non-negative fixed-point number (ties to even)
RoundToInt(t) ==
    CHOOSE n \in 0 .. t + 1 :
        /\ 2 * (n * Scale - t) <= Scale
        /\ 2 * (t - n * Scale) <= Scale
        /\ (2 * (n * Scale - t) = Scale \/ 2 * (t - n * Scale) = Scale)
               => n % 2 = 0

Clamp(x, lo, hi) == IF x < lo THEN lo ELSE IF x > hi THEN hi ELSE x

\* ---------------------------------------------------------------- C1
\* C1: after a mode-change notification carrying one of PAN_ZOOM, PICKER,
\* PAINT, FILL has been handled, exactly one mode-selector button is
\* checked, and it is the button that belongs to that mode.
C1_ModeSelectsItsButton ==
    (Wrote("mode") /\ event.value \in Modes)
        => CheckedButtons = {ButtonOf(event.value)}

\* a PAINT notification was handled while another button was checked
C1_Witness ==
    /\ Wrote("mode")
    /\ event.value = "PAINT"
    /\ layer.mode = "PAINT"
    /\ CheckedButtons = {"paint_button"}

\* ---------------------------------------------------------------- C2
\* C2: a mode-change notification whose mode is none of the four makes
\* _on_mode_change raise ValueError, and the checked mode buttons are the
\* same as before the notification.
C2_UnknownModeRaises ==
    [][(event'.kind = "write" /\ event'.target = "mode"
          /\ event'.value \notin Modes)
         => (raised' = "ValueError" /\ panel'.checked = panel.checked)]_vars

\* the unknown mode arrived while the fill button was checked
C2_Witness ==
    /\ Wrote("mode")
    /\ event.value = UnknownMode
    /\ raised = "ValueError"
    /\ CheckedButtons = {"fill_button"}

\* ---------------------------------------------------------------- C3
\* C3: when selected_label is written with a value that differs from the
\* one the spinbox shows, the spinbox is set to that value, changeSelection
\* is not invoked by the round trip, and selected_label is written once.
C3_NoDuplicateWrite ==
    [][(event'.kind = "write" /\ event'.target = "selected_label"
          /\ event'.value # panel.selectionSpinBox)
         => /\ panel'.selectionSpinBox = event'.value
            /\ \A i \in 1 .. Len(calls') :
                   calls'[i] # <<"call", "changeSelection">>
            /\ Cardinality({i \in 1 .. Len(calls') :
                   calls'[i][1] = "set"
                       /\ calls'[i][2] = "selected_label"}) = 1]_vars

\* ---------------------------------------------------------------- C4
\* C4 (as claimed): after a brush-size write of v is handled, the slider
\* displays clamp(round-to-int(v), 1, 40).
C4_SliderShowsRounded ==
    Wrote("brush_size")
        => panel.brushSizeSlider = Clamp(RoundToInt(event.value), 1, 40)

\* C4 (amended): after a brush-size write of v is handled, the slider
\* displays clamp(trunc(v), 1, 40), where trunc discards the fraction of v.
C4_SliderShowsTruncated ==
    Wrote("brush_size")
        => panel.brushSizeSlider = Clamp(TruncToInt(event.value), 1, 40)

\* a brush size with a fraction above one half was written and the slider
\* shows its integer part
C4_Witness ==
    /\ Wrote("brush_size")
    /\ event.value = MidBrush * Scale + Scale - 1
    /\ panel.brushSizeSlider = MidBrush

\* ---------------------------------------------------------------- C5
\* C5: when brush_size is written with a value outside [1, 40], the model
\* keeps that value after the notification is handled, and handling the
\* notification writes no layer property (the only write of the chain is
\* the program's own).
C5_ModelKeepsOutOfRange ==
    (Wrote("brush_size")
       /\ (event.value < 1 * Scale \/ event.value > 40 * Scale))
        => /\ layer.brush_size = event.value
           /\ Cardinality({i \in 1 .. Len(calls) : calls[i][1] = "set"}) = 1

\* ---------------------------------------------------------------- C6
\* the inbound handler __init__ connects to a property's notification
InboundOf(prop) ==
    CASE prop = "selected_label" -> "_on_selection_change"
      [] prop = "brush_size" -> "_on_brush_size_change"
      [] prop = "contiguous" -> "_on_contig_change"
      [] prop = "n_dimensional" -> "_on_n_dim_change"

\* C6: whenever no handler is running, the spinbox equals selected_label,
\* the contiguous checkbox equals contiguous and the n-dim checkbox equals
\* n_dimensional; and a user edit's chain holds the write of the property
\* followed by the run of its inbound handler, so the notification was
\* handled before the outbound handler returned.
C6_ControlsAgreeWithModel ==
    pc = "ready"
        => /\ panel.selectionSpinBox = layer.selected_label
           /\ panel.contigCheckBox = layer.contiguous
           /\ panel.ndimCheckBox = layer.n_dimensional
           /\ event.kind = "user"
                  => \E i \in SetsOf(event.target) :
                         \E j \in CallsOf(InboundOf(event.target)) : i < j

\* the user ticked the contiguous checkbox and the model followed
C6_Witness ==
    /\ event.kind = "user"
    /\ event.target = "contiguous"
    /\ panel.contigCheckBox
    /\ layer.contiguous
    /\ panel.selectionSpinBox = MaxLabel

\* ---------------------------------------------------------------- C7
ValueProperties ==
    {"selected_label", "brush_size", "contiguous", "n_dimensional"}

\* C7: the chain of a user edit or of a model write never runs out of
\* fuel, runs each handler at most once and writes the property at most
\* twice; and when it has ended, delivering the notification of any of
\* the four properties again changes neither the layer nor a control.
C7_RoundTripSettles ==
    pc = "ready"
        => /\ ~overrun
           /\ event.kind \in {"user", "write"}
                  => /\ Len(calls) <= 4
                     /\ Cardinality(SetsOf(event.target)) <= 2
                     /\ \A i, j \in 1 .. Len(calls) :
                            (calls[i][1] = "call" /\ calls[i] = calls[j])
                                => i = j
           /\ \A prop \in ValueProperties :
                  LET again == Emit(Start, prop, layer[prop])
                  IN  /\ again.layer = layer
                      /\ again.panel = panel
                      /\ again.blocked = blocked

\* a model write of a fractional brush size went round: the slider called
\* changeSize, which wrote the model a second time, and the chain ended
C7_Witness ==
    /\ Wrote("brush_size")
    /\ event.value = MidBrush * Scale + LowFrac
    /\ Len(calls) = 4
    /\ calls[3] = <<"call", "changeSize">>
    /\ ~overrun

\* ---------------------------------------------------------------- C8
\* C8: immediately after construction the checked mode button is the one
\* of layer.mode, the spinbox equals selected_label, the slider equals the
\* clamped brush_size, the checkboxes equal contiguous and n_dimensional,
\* and pick/paint/fill are enabled exactly when editable is true.
C8_ConstructionMirrorsLayer ==
    event.kind = "construct"
        => /\ CheckedButtons = {ButtonOf(layer.mode)}
           /\ panel.selectionSpinBox = layer.selected_label
           /\ panel.brushSizeSlider =
                  Clamp(TruncToInt(layer.brush_size), 1, 40)
           /\ panel.contigCheckBox = layer.contiguous
           /\ panel.ndimCheckBox = layer.n_dimensional
           /\ \A b \in {"pick_button", "paint_button", "fill_button"} :
                  panel.enabled[b] = layer.editable

\* ---------------------------------------------------------------- C9
\* C9: once the panel is constructed, after any changes of editable, the
\* pick, paint and fill buttons are enabled exactly when editable is true,
\* and the pan/zoom button is enabled.
C9_EditableEnablesButtons ==
    pc = "ready"
        => /\ \A b \in {"pick_button", "paint_button", "fill_button"} :
                  panel.enabled[b] = layer.editable
           /\ panel.enabled["panzoom_button"]

\* editable was set to false: the three are disabled, pan/zoom is not
C9_Witness ==
    /\ Wrote("editable")
    /\ event.value = FALSE
    /\ ~panel.enabled["pick_button"]
    /\ ~panel.enabled["paint_button"]
    /\ ~panel.enabled["fill_button"]
    /\ panel.enabled["panzoom_button"]

\* ---------------------------------------------------------------- C10
\* C10: after k clicks on 'shuffle colors', new_colormap has been called k
\* times: each click calls it once, and the click leaves every mirrored
\* property of the layer as it was.
C10_ShuffleCallsOnce ==
    /\ [](new_colormap_calls = clicks)
    /\ [][clicks' # clicks
            => /\ clicks' = clicks + 1
               /\ new_colormap_calls' = new_colormap_calls + 1
               /\ layer' = layer]_vars

\* the button was clicked twice and new_colormap was called twice
C10_Witness ==
    /\ event.kind = "click"
    /\ clicks = 2
    /\ new_colormap_calls = 2

\* ---------------------------------------------------------------- C13
\* the value the control of a property displays
ControlOf(prop) ==
    CASE prop = "selected_label" -> panel.selectionSpinBox
      [] prop = "brush_size" -> panel.brushSizeSlider
      [] prop = "contiguous" -> panel.contigCheckBox
      [] prop = "n_dimensional" -> panel.ndimCheckBox

\* the value a control displays for a value of its property
DisplayOf(prop, value) ==
    IF prop = "brush_size" THEN Clamp(TruncToInt(value), 1, 40) ELSE value

\* C13: whenever no handler is running no property's notification is
\* blocked, so every model write of selected_label, brush_size, contiguous
\* or n_dimensional is delivered to its inbound handler right after the
\* write and its control displays the written value.
C13_SuppressionReleased ==
    pc = "ready"
        => /\ \A p \in Properties : blocked[p] = 0
           /\ (event.kind = "write" /\ event.target \in ValueProperties)
                  => /\ Len(calls) >= 2
                     /\ calls[2] = <<"call", InboundOf(event.target)>>
                     /\ ControlOf(event.target) =
                            DisplayOf(event.target, event.value)

\* a second write of selected_label was delivered after the first one's
\* handler had blocked and released the event
C13_Witness ==
    /\ Wrote("selected_label")
    /\ event.value = 0
    /\ calls[2] = <<"call", "_on_selection_change">>
    /\ Len(calls) = 4
    /\ panel.selectionSpinBox = 0
    /\ \A p \in Properties : blocked[p] = 0

\* ---------------------------------------------------------------- C14
\* the value an outbound handler writes for what the control reports
ReportedValue(ev) ==
    IF ev.target = "brush_size" THEN ev.value * Scale ELSE ev.value

\* C14: a user edit writes only the property of the edited control, with
\* the value the control reports, and leaves every other mirrored property
\* as it was; change_contig and change_ndim write true exactly for the
\* state Checked and false for Unchecked and PartiallyChecked.
C14_OutboundWritesOwnProperty ==
    [][/\ event'.kind = "user"
            => /\ layer'[event'.target] = ReportedValue(event')
               /\ \A p \in Properties \ {event'.target} :
                      layer'[p] = layer[p]
               /\ \A i \in 1 .. Len(calls') :
                      calls'[i][1] = "set" => calls'[i][2] = event'.target
       /\ pc = "ready"
            => \A state \in 0 .. QtChecked :
                   LET c == change_contig(Start, state).layer
                       n == change_ndim(Start, state).layer
                   IN  /\ c.contiguous = (state = QtChecked)
                       /\ c.n_dimensional = layer.n_dimensional
                       /\ n.n_dimensional = (state = QtChecked)
                       /\ n.contiguous = layer.contiguous]_vars

\* the user ticked the n-dim checkbox while contiguous was off
C14_Witness ==
    /\ event.kind = "user"
    /\ event.target = "n_dimensional"
    /\ event.value = TRUE
    /\ layer.n_dimensional
    /\ ~layer.contiguous

\* ---------------------------------------------------------------- C15
\* C15: constructing the panel leaves mode, selected_label, brush_size,
\* contiguous, n_dimensional and editable of the layer as they were.
C15_ConstructionKeepsLayer ==
    [][(pc = "new" /\ pc' = "ready") => layer' = layer]_vars

\* ---------------------------------------------------------------- C16
\* C16: a pointer movement over the panel sets the layer's status to the
\* string form of the layer's mode at that moment and changes no mirrored
\* layer property and no control.
C16_MouseMoveSetsStatus ==
    [][event'.kind = "mouse"
         => /\ status' = ModeStr(layer.mode)
            /\ layer' = layer
            /\ panel' = panel
            /\ blocked' = blocked
            /\ new_colormap_calls' = new_colormap_calls]_vars

\* the pointer moved while the layer was in FILL mode, after it had moved
\* in another mode
C16_Witness ==
    /\ event.kind = "mouse"
    /\ layer.mode = "FILL"
    /\ status = "fill"
    /\ CheckedButtons = {"fill_button"}

\* the shade the claim gives the pixel (x, y) of the checkerboard: cells of
\* 4 pixels, light where the cell's two indices have the same parity
Shade(x, y) ==
    IF (x \div 4) % 2 = (y \div 4) % 2
    THEN <<230, 230, 230>> ELSE <<25, 25, 25>>

\* C11: once painted, the swatch is the checkerboard exactly when the layer
\* has no selected colour (six by six cells of 4 pixels over the 24 pixel
\* swatch, light for indices of equal parity and dark otherwise), and is
\* otherwise one rectangle filling the whole swatch in a single colour
C11_CheckerboardOrSolid ==
    event.kind = "paint" =>
        IF selected_color = NoColor
        THEN /\ swatch.rects = 6 * 6
             /\ DOMAIN swatch.pixels = (0 .. 23) \X (0 .. 23)
             /\ \A q \in DOMAIN swatch.pixels :
                    swatch.pixels[q] = Shade(q[1], q[2])
        ELSE /\ swatch.rects = 1
             /\ \E c \in {swatch.pixels[<<0, 0>>]} :
                    /\ c # Blank
                    /\ \A q \in DOMAIN swatch.pixels : swatch.pixels[q] = c
             /\ \E q \in DOMAIN swatch.pixels :
                    swatch.pixels[q] # Shade(q[1], q[2])

\* a painted swatch of a layer without a colour: the first cell light, its
\* two neighbours dark
C11_Witness ==
    /\ event.kind = "paint"
    /\ selected_color = NoColor
    /\ swatch.pixels[<<0, 0>>] = <<230, 230, 230>>
    /\ swatch.pixels[<<4, 0>>] = <<25, 25, 25>>
    /\ swatch.pixels[<<0, 4>>] = <<25, 25, 25>>

\* 255 * (k / ChanScale) rounded to the nearest integer, ties to even
RoundChannel(k) ==
    LET lo == (255 * k) \div ChanScale
        rest == 2 * ((255 * k) % ChanScale)
    IN  IF rest > ChanScale \/ (rest = ChanScale /\ lo % 2 = 1)
        THEN lo + 1 ELSE lo

\* the integer part of 255 * (k / ChanScale)
TruncChannel(k) ==
    CHOOSE n \in 0 .. 255 :
        n * ChanScale <= 255 * k /\ 255 * k < (n + 1) * ChanScale

\* C12 as stated: the solid fill has, in each channel, round(255 * c) of
\* the selected colour's channel c
C12_ChannelsRounded ==
    (event.kind = "paint" /\ selected_color # NoColor) =>
        swatch.pixels[<<0, 0>>] = <<RoundChannel(selected_color[1]),
                                     RoundChannel(selected_color[2]),
                                     RoundChannel(selected_color[3])>>

\* C12, amended: the solid fill has, in each channel, the integer part of
\* 255 * c of the selected colour's channel c, so (1.0, 0.0, 0.0) fills
\* with (255, 0, 0) and a channel of 0.5 gives 127
C12_ChannelsTruncated ==
    (event.kind = "paint" /\ selected_color # NoColor) =>
        \E fill \in {<<TruncChannel(selected_color[1]),
                        TruncChannel(selected_color[2]),
                        TruncChannel(selected_color[3])>>} :
            \A q \in DOMAIN swatch.pixels : swatch.pixels[q] = fill

\* a painted fill where truncation and rounding differ: the full channel
\* gives 255, the channel of one quarter gives 63 and not 64
C12_Witness ==
    /\ event.kind = "paint"
    /\ selected_color = <<ChanScale, 0, 1>>
    /\ swatch.pixels[<<0, 0>>] =
           <<255, 0, (255 - (255 % ChanScale)) \div ChanScale>>
    /\ RoundChannel(1) # TruncChannel(1)

=============================================================================
